---- MODULE Spec2Model ----
(***************************************************************************)
(* Mini Hydraulic Power Plant Calculator (src/app.py).                     *)
(*                                                                         *)
(* The script is a Streamlit page: every run reads five widgets, converts  *)
(* units, computes two powers and a penstock diameter, and renders five    *)
(* outputs.  A change of a widget reruns the script from the top.          *)
(*                                                                         *)
(* Numbers.  The script computes with Python floats.  The model computes   *)
(* with exact decimal fixed point: every quantity is an integer count of a *)
(* fixed unit, and the products that do not fit a machine word are exact   *)
(* naturals held as little-endian sequences of base-10^4 limbs.  Float     *)
(* rounding (about 1e-16 relative) and float underflow/overflow are not    *)
(* modelled.  The units:                                                   *)
(*    Q_cusec        1      cusec        (the widget's step, line 46)      *)
(*    v_fps          1e-1   ft/s         (the widget's step, line 47)      *)
(*    H_m            1e-1   m            (the widget's step, line 48)      *)
(*    eta_*          1e-2                (slider percent / 100)            *)
(*    Q_m3s          1e-7   m^3/s                                          *)
(*    v_mps          1e-5   m/s                                            *)
(*    P_hydraulic_W  1e-10  W                                              *)
(*    P_actual_W     1e-14  W                                              *)
(*    D_penstock     1e-6   m  (the square root, rounded down)             *)
(***************************************************************************)
EXTENDS Integers, Sequences, FiniteSets, TLC

(***************************************************************************)
(* Exact naturals: little-endian limbs in base 10^4, no leading zero limb; *)
(* zero is the empty sequence.  A recursive operator first binds its       *)
(* arguments to their values (x \in {x0}), so that each is evaluated once. *)
(***************************************************************************)
Base == 10^4

RECURSIVE NatOfInt(_)
NatOfInt(n0) ==
    CHOOSE r \in {
        IF n = 0 THEN <<>> ELSE <<n % Base>> \o NatOfInt(n \div Base)
        : n \in {n0}} : TRUE

RECURSIVE NatToInt(_)
NatToInt(a0) ==
    CHOOSE r \in {
        IF a = <<>> THEN 0 ELSE Head(a) + Base * NatToInt(Tail(a))
        : a \in {a0}} : TRUE

RECURSIVE NatNorm(_)
NatNorm(a0) ==
    CHOOSE r \in {
        IF a = <<>> THEN <<>>
        ELSE IF a[Len(a)] = 0 THEN NatNorm(SubSeq(a, 1, Len(a) - 1))
        ELSE a
        : a \in {a0}} : TRUE

RECURSIVE NatAddC(_, _, _)
NatAddC(a0, b0, c0) ==
    CHOOSE r \in {
        IF a = <<>> /\ b = <<>> THEN (IF c = 0 THEN <<>> ELSE <<c>>)
        ELSE LET x == IF a = <<>> THEN 0 ELSE Head(a)
                 y == IF b = <<>> THEN 0 ELSE Head(b)
                 s == x + y + c
             IN  <<s % Base>> \o NatAddC(IF a = <<>> THEN <<>> ELSE Tail(a),
                                          IF b = <<>> THEN <<>> ELSE Tail(b),
                                          s \div Base)
        : a \in {a0}, b \in {b0}, c \in {c0}} : TRUE

NatAdd(a, b) == NatAddC(a, b, 0)

\* a * d + c for a limb d
RECURSIVE NatMulLimbC(_, _, _)
NatMulLimbC(a0, d0, c0) ==
    CHOOSE r \in {
        IF a = <<>> THEN (IF c = 0 THEN <<>> ELSE <<c>>)
        ELSE LET s == Head(a) * d + c
             IN  <<s % Base>> \o NatMulLimbC(Tail(a), d, s \div Base)
        : a \in {a0}, d \in {d0}, c \in {c0}} : TRUE

RECURSIVE NatMul(_, _)
NatMul(a0, b0) ==
    CHOOSE r \in {
        IF a = <<>> \/ b = <<>> THEN <<>>
        ELSE NatNorm(NatAdd(NatMulLimbC(a, Head(b), 0),
                            <<0>> \o NatMul(a, Tail(b))))
        : a \in {a0}, b \in {b0}} : TRUE

\* a * 10^k
RECURSIVE NatMulPow10(_, _)
NatMulPow10(a0, k0) ==
    CHOOSE r \in {
        IF a = <<>> THEN <<>>
        ELSE IF k >= 4 THEN <<0>> \o NatMulPow10(a, k - 4)
        ELSE IF k = 0 THEN a
        ELSE NatMulLimbC(a, 10^k, 0)
        : a \in {a0}, k \in {k0}} : TRUE

\* -1, 0, 1 as a < b, a = b, a > b, from limb i down
RECURSIVE NatCmpFrom(_, _, _)
NatCmpFrom(a0, b0, i0) ==
    CHOOSE r \in {
        IF i = 0 THEN 0
        ELSE IF a[i] < b[i] THEN -1
        ELSE IF a[i] > b[i] THEN 1
        ELSE NatCmpFrom(a, b, i - 1)
        : a \in {a0}, b \in {b0}, i \in {i0}} : TRUE

NatCmp(a0, b0) ==
    CHOOSE r \in {
        IF Len(a) < Len(b) THEN -1
        ELSE IF Len(a) > Len(b) THEN 1
        ELSE NatCmpFrom(a, b, Len(a))
        : a \in {a0}, b \in {b0}} : TRUE

NatLeq(a, b) == NatCmp(a, b) <= 0

\* Division by a small d (1 <= d <= Base), from limb i down with remainder r
\* carried in: [q |-> quotient, r |-> remainder].
RECURSIVE NatDivLimbFrom(_, _, _, _)
NatDivLimbFrom(a0, d0, i0, r0) ==
    CHOOSE res \in {
        IF i = 0 THEN [q |-> <<>>, r |-> r]
        ELSE LET cur == r * Base + a[i]
             IN  CHOOSE x \in {[q |-> rest.q \o <<cur \div d>>, r |-> rest.r]
                               : rest \in {NatDivLimbFrom(a, d, i - 1, cur % d)}}
                     : TRUE
        : a \in {a0}, d \in {d0}, i \in {i0}, r \in {r0}} : TRUE

NatDivLimb(a0, d0) ==
    CHOOSE x \in {[q |-> NatNorm(res.q), r |-> res.r]
                  : res \in {NatDivLimbFrom(a0, d0, Len(a0), 0)}} : TRUE

\* Division by 10^k: [q |-> quotient, exact |-> the remainder is zero].
RECURSIVE NatDivPow10(_, _)
NatDivPow10(a0, k0) ==
    CHOOSE x \in {
        IF a = <<>> THEN [q |-> <<>>, exact |-> TRUE]
        ELSE IF k >= 4 THEN
            CHOOSE y \in {[q |-> rest.q, exact |-> rest.exact /\ Head(a) = 0]
                          : rest \in {NatDivPow10(Tail(a), k - 4)}} : TRUE
        ELSE IF k = 0 THEN [q |-> a, exact |-> TRUE]
        ELSE CHOOSE y \in {[q |-> res.q, exact |-> res.r = 0]
                           : res \in {NatDivLimb(a, 10^k)}} : TRUE
        : a \in {a0}, k \in {k0}} : TRUE

(***************************************************************************)
(* A Python float: a sign and an exact magnitude in the quantity's unit.   *)
(***************************************************************************)
Float(sign, mag0) ==
    CHOOSE x \in {[sign |-> IF mag = <<>> THEN 0 ELSE sign, mag |-> mag]
                  : mag \in {mag0}} : TRUE

Sgn(n) == IF n > 0 THEN 1 ELSE IF n < 0 THEN -1 ELSE 0

Abs(n) == IF n < 0 THEN -n ELSE n

FloatOfInt(n) == Float(Sgn(n), NatOfInt(Abs(n)))

FloatMulInt(x0, n) ==
    CHOOSE y \in {Float(x.sign * Sgn(n), NatMul(x.mag, NatOfInt(Abs(n))))
                  : x \in {x0}} : TRUE

\* x <= y
FloatLeq(x0, y0) ==
    CHOOSE r \in {
        IF x.sign # y.sign THEN x.sign < y.sign
        ELSE IF x.sign >= 0 THEN NatLeq(x.mag, y.mag)
        ELSE NatLeq(y.mag, x.mag)
        : x \in {x0}, y \in {y0}} : TRUE

FloatZero == Float(0, <<>>)

(***************************************************************************)
(* Formatting.  f"{x:.<d>f}" rounds x to d decimals, ties to even.         *)
(* RoundHalfEven(a, k) is a / 10^k rounded to an integer (k >= 1).         *)
(***************************************************************************)
RoundHalfEven(a, k) ==
    CHOOSE n \in {
        IF up.exact /\ NatToInt(up.q) % 2 = 1 THEN NatToInt(up.q) - 1
        ELSE NatToInt(up.q)
        : up \in {NatDivPow10(NatAdd(a, NatMulPow10(<<5>>, k - 1)), k)}} : TRUE

\* x counts units of 10^-unitExp; the result counts units of 10^-decimals.
FormatFixed(x0, unitExp, decimals) ==
    CHOOSE n \in {x.sign * RoundHalfEven(x.mag, unitExp - decimals)
                  : x \in {x0}} : TRUE

(***************************************************************************)
(* Helper functions (src/app.py lines 5-35).                               *)
(***************************************************************************)
\* 0.0283168, in units of 1e-7
CUSEC_M3 == 283168

\* 0.3048, in units of 1e-4
FPS_MPS == 3048

\* math.pi = 3.141592653589793, in units of 1e-15
MATH_PI == <<9793, 5358, 5926, 3141>>

\* the factor rounded to 0.0283
cusec_to_m3s_rounded(Q) == Q * (283 * 10^3)

cusec_to_m3s(Q) == Q * CUSEC_M3

fps_to_mps(v) == v * FPS_MPS

\* the head left out: rho * g * Q_m3s
hydraulic_power_nohead(rho, g, Q, H) ==
    FloatMulInt(FloatMulInt(FloatOfInt(rho), g), Q)

\* rho * g * Q_m3s * H_m, evaluated left to right
hydraulic_power(rho, g, Q, H) ==
    FloatMulInt(FloatMulInt(FloatMulInt(FloatOfInt(rho), g), Q), H)

actual_power(P, eta_t, eta_g) ==
    FloatMulInt(FloatMulInt(P, eta_t), eta_g)

\* the thresholds 300 and 50, in units of 1e-1 m
HIGH_HEAD == 3000

MEDIUM_HEAD == 500

\* the widgets' floors, ceilings and defaults, in the widgets' units
Q_MIN == 0

Q_DEFAULT == 100

V_MIN == 1

V_DEFAULT == 60

H_MIN == 0

H_DEFAULT == 200

ETA_MIN == 1

ETA_MAX == 100

ETA_T_DEFAULT == 85

ETA_G_DEFAULT == 90

\* rho, g = 1000, 9.81 (g in units of 1e-2)
RHO == 1000

G == 981

\* How far around each floor and each threshold the entered values range.
MaxStep == 1

\* What a user may type into the widgets (the floors reject some of it).
QEntered == {Q_DEFAULT} \cup {Q_MIN + k : k \in (-MaxStep)..MaxStep}

VEntered == {V_DEFAULT} \cup {V_MIN + k : k \in (-MaxStep)..MaxStep}

HEntered ==
    {H_DEFAULT, 3500} \cup {H_MIN + k : k \in (-MaxStep)..0}
        \cup {MEDIUM_HEAD + k : k \in (-MaxStep)..MaxStep}
        \cup {HIGH_HEAD + k : k \in (-MaxStep)..MaxStep}

EtaTEntered == {ETA_MIN - 1, ETA_MIN, ETA_T_DEFAULT, ETA_MAX, ETA_MAX + 1}

EtaGEntered == {ETA_MIN - 1, ETA_MIN, ETA_G_DEFAULT, ETA_MAX, ETA_MAX + 1}

\* How far around zero the arguments of a direct call range.
MaxArg == 2

\* The arguments of direct calls: Q in 1e-7 m^3/s, v in 1e-5 m/s, H in 1e-1 m.
UnitQValues == ((-MaxArg)..MaxArg) \cup {cusec_to_m3s(Q_DEFAULT)}

UnitVValues == ((-MaxArg)..MaxArg) \cup {fps_to_mps(V_DEFAULT)}

UnitHValues == ((-MaxArg)..MaxArg) \cup HEntered

SqrtArgs ==
    {a \in ({cusec_to_m3s(q) : q \in QEntered} \X {fps_to_mps(v) : v \in VEntered})
              \cup (UnitQValues \X UnitVValues) : a[1] >= 0 /\ a[2] > 0}

\* n^2 * c <= t
SqrtFits(n, c, t) == NatLeq(NatMul(NatMul(NatOfInt(n), NatOfInt(n)), c), t)

\* a power of two times n whose square times c exceeds t
RECURSIVE SqrtAbove(_, _, _)
SqrtAbove(n0, c, t) ==
    CHOOSE r \in {
        IF SqrtFits(n, c, t) THEN SqrtAbove(2 * n, c, t) ELSE n
        : n \in {n0}} : TRUE

\* the largest n in lo..(hi - 1) with n^2 * c <= t, by bisection
RECURSIVE SqrtBetween(_, _, _, _)
SqrtBetween(lo0, hi0, c, t) ==
    CHOOSE r \in {
        IF hi - lo <= 1 THEN lo
        ELSE IF SqrtFits((lo + hi) \div 2, c, t)
             THEN SqrtBetween((lo + hi) \div 2, hi, c, t)
             ELSE SqrtBetween(lo, (lo + hi) \div 2, c, t)
        : lo \in {lo0}, hi \in {hi0}} : TRUE

\* math.sqrt((4 * Q) / (math.pi * v)) for Q >= 0 and v > 0, rounded down to
\* 1e-6 m: the largest n with n^2 * pi * v <= 4 * Q, where n counts 1e-6 m,
\* v 1e-5 m/s, Q 1e-7 m^3/s and pi 1e-15.
SqrtSearch(Q, v) ==
    CHOOSE r \in {
        SqrtBetween(0, SqrtAbove(1, a[1], a[2]), a[1], a[2])
        : a \in {<<NatMul(MATH_PI, NatOfInt(v)),
                   NatMulPow10(NatOfInt(4 * Q), 25)>>}} : TRUE

\* SqrtSearch, tabulated once for the arguments in SqrtArgs.
SqrtTable == {<<a, SqrtSearch(a[1], a[2])>> : a \in SqrtArgs}

SqrtQuotient(Q, v) ==
    IF \E p \in SqrtTable : p[1] = <<Q, v>>
    THEN (CHOOSE p \in SqrtTable : p[1] = <<Q, v>>)[2]
    ELSE SqrtSearch(Q, v)

NoneValue == [tag |-> "None", val |-> 0]

\* "if not Q_m3s or v_mps <= 0": a zero discharge treated as absent too
penstock_diameter_falsy(Q, v) ==
    IF v <= 0 \/ Q = 0 THEN NoneValue
    ELSE IF Q < 0 THEN [tag |-> "ValueError", val |-> 0]
    ELSE [tag |-> "float", val |-> SqrtQuotient(Q, v)]

\* the factor 4 left out: math.sqrt(Q / (math.pi * v))
penstock_diameter_no4(Q, v) ==
    IF v <= 0 THEN NoneValue
    ELSE IF Q < 0 THEN [tag |-> "ValueError", val |-> 0]
    ELSE [tag |-> "float", val |-> SqrtSearch(Q, 4 * v)]

\* math.sqrt raises ValueError on a negative argument
penstock_diameter(Q, v) ==
    IF v <= 0 THEN NoneValue
    ELSE IF Q < 0 THEN [tag |-> "ValueError", val |-> 0]
    ELSE [tag |-> "float", val |-> SqrtQuotient(Q, v)]

Pelton == "Pelton Turbine (High Head)"

Francis == "Francis Turbine (Medium Head)"

Kaplan == "Kaplan / Propeller Turbine (Low Head)"

\* "if H >= 300": the high-head boundary taken as Pelton
suggest_turbine_closed(H) ==
    IF H >= HIGH_HEAD THEN Pelton
    ELSE IF MEDIUM_HEAD <= H /\ H <= HIGH_HEAD THEN Francis
    ELSE Kaplan

suggest_turbine(H) ==
    IF H > HIGH_HEAD THEN Pelton
    ELSE IF MEDIUM_HEAD <= H /\ H <= HIGH_HEAD THEN Francis
    ELSE Kaplan

\* Python truthiness of a function result: None and 0.0 are false
Truthy(x) == x.tag = "float" /\ x.val # 0

(***************************************************************************)
(* The page (src/app.py lines 37-118).                                     *)
(***************************************************************************)
\* no min_value given: every entered value is accepted
number_input_unchecked(entered, min_value) == TRUE

\* st.number_input(..., min_value=m): a value below the floor is not accepted
number_input(entered, min_value) == entered >= min_value

\* st.slider(..., min_value=lo, max_value=hi): the handle stays in lo..hi
slider(entered, lo, hi) == lo <= entered /\ entered <= hi

\* the division by 100 left out
SliderFraction_percent(percent) == percent * 10^2

\* slider(...) / 100, the result in units of 1e-2
SliderFraction(percent) == (percent * 10^2) \div 100

VARIABLES
    widgets,        \* the session's widget values
    pc,             \* the statement the script run is at
    Q_cusec, v_fps, H_m, eta_turbine, eta_generator,
    Q_m3s, v_mps, P_hydraulic_W, P_actual_W, D_penstock,
    turbine,        \* suggest_turbine's result, on its way to st.info
    page,           \* the elements rendered by this run, in order
    steps,          \* the statements this run has executed, in order
    prev,           \* the head, discharge and recommendation of the run before
    u_Q, u_v, u_H,  \* a direct call's arguments
    u_P, u_D, u_label, u_called   \* direct calls' results, and which were made

scriptVars ==
    <<Q_cusec, v_fps, H_m, eta_turbine, eta_generator,
      Q_m3s, v_mps, P_hydraulic_W, P_actual_W, D_penstock, turbine>>

unitVars == <<u_Q, u_v, u_H, u_P, u_D, u_label, u_called>>

vars == <<widgets, pc, scriptVars, page, steps, prev, unitVars>>

Unbound == [tag |-> "unbound", val |-> 0]

NoPrev == [set |-> FALSE, H |-> 0, Q |-> 0, label |-> ""]

\* The script's statements, in the order of the file.
ScriptOrder ==
    << "inputs", "convert", "power", "diameter", "render_hydraulic",
       "render_electrical", "render_mw", "render_penstock",
       "classify_turbine", "render_turbine" >>

Element(kind, num, aux, text) ==
    [kind |-> kind, num |-> num, aux |-> aux, text |-> text]

\* A fresh run: no script variable is bound, the page is empty.
FreshRun ==
    /\ pc = "inputs"
    /\ Q_cusec = 0 /\ v_fps = 0 /\ H_m = 0
    /\ eta_turbine = 0 /\ eta_generator = 0
    /\ Q_m3s = 0 /\ v_mps = 0
    /\ P_hydraulic_W = FloatZero /\ P_actual_W = FloatZero
    /\ D_penstock = Unbound
    /\ turbine = ""
    /\ page = <<>>
    /\ steps = <<>>

UnitIdle ==
    /\ u_P = FloatZero /\ u_D = Unbound /\ u_label = "" /\ u_called = {}

Init ==
    /\ widgets = [Q |-> Q_DEFAULT, v |-> V_DEFAULT, H |-> H_DEFAULT,
                  t |-> ETA_T_DEFAULT, g |-> ETA_G_DEFAULT]
    /\ FreshRun
    /\ prev = NoPrev
    /\ u_Q = 0 /\ u_v = 0 /\ u_H = 0
    /\ UnitIdle

Step(name, next) ==
    /\ pc = name
    /\ pc' = next
    /\ steps' = Append(steps, name)
    /\ UNCHANGED <<widgets, prev, unitVars>>

\* lines 43-52
ReadInputs ==
    /\ Step("inputs", "convert")
    /\ Q_cusec' = widgets.Q
    /\ v_fps' = widgets.v
    /\ H_m' = widgets.H
    /\ eta_turbine' = SliderFraction(widgets.t)
    /\ eta_generator' = SliderFraction(widgets.g)
    /\ UNCHANGED <<Q_m3s, v_mps, P_hydraulic_W, P_actual_W, D_penstock,
                   turbine, page>>

\* lines 54-56
ConvertUnits ==
    /\ Step("convert", "power")
    /\ Q_m3s' = cusec_to_m3s(Q_cusec)
    /\ v_mps' = fps_to_mps(v_fps)
    /\ UNCHANGED <<Q_cusec, v_fps, H_m, eta_turbine, eta_generator,
                   P_hydraulic_W, P_actual_W, D_penstock, turbine, page>>

\* lines 58-61
ComputePowers ==
    /\ Step("power", "diameter")
    /\ P_hydraulic_W' = hydraulic_power(RHO, G, Q_m3s, H_m)
    /\ P_actual_W' = actual_power(P_hydraulic_W', eta_turbine, eta_generator)
    /\ UNCHANGED <<Q_cusec, v_fps, H_m, eta_turbine, eta_generator,
                   Q_m3s, v_mps, D_penstock, turbine, page>>

\* lines 63-64
ComputeDiameter ==
    /\ pc = "diameter"
    /\ D_penstock' = penstock_diameter(Q_m3s, v_mps)
    /\ pc' = IF D_penstock'.tag = "ValueError" THEN "crashed"
             ELSE "render_hydraulic"
    /\ steps' = Append(steps, "diameter")
    /\ UNCHANGED <<widgets, prev, unitVars>>
    /\ UNCHANGED <<Q_cusec, v_fps, H_m, eta_turbine, eta_generator,
                   Q_m3s, v_mps, P_hydraulic_W, P_actual_W, turbine, page>>

Render(element) ==
    /\ page' = Append(page, element)
    /\ UNCHANGED scriptVars

\* line 71: f"{P_hydraulic_W/1000:.3f} kW"
RenderHydraulic ==
    /\ Step("render_hydraulic", "render_electrical")
    /\ Render(Element("metric_hydraulic",
                      FormatFixed(P_hydraulic_W, 10 + 3, 3), 0, "kW"))

\* line 75: f"{P_actual_W/1000:.3f} kW"
RenderElectrical ==
    /\ Step("render_electrical", "render_mw")
    /\ Render(Element("metric_electrical",
                      FormatFixed(P_actual_W, 14 + 3, 3), 0, "kW"))

\* line 79: f"- {P_actual_W/1e6:.6f} MW"
RenderMW ==
    /\ Step("render_mw", "render_penstock")
    /\ Render(Element("write_mw", FormatFixed(P_actual_W, 14 + 6, 6), 0, "MW"))

\* st.stop() after st.error: the run ends at the error message
RenderPenstock_stop ==
    \/ /\ Truthy(D_penstock)
       /\ Step("render_penstock", "classify_turbine")
       /\ Render(Element("success",
                         FormatFixed(FloatOfInt(D_penstock.val), 6, 3),
                         FormatFixed(FloatOfInt(v_mps), 5, 2),
                         "Recommended Diameter"))
    \/ /\ ~Truthy(D_penstock)
       /\ Step("render_penstock", "done")
       /\ Render(Element("error", 0, 0, "Invalid velocity selected."))

\* lines 83-86: if D_penstock: st.success(...) else: st.error(...)
RenderPenstock ==
    /\ Step("render_penstock", "classify_turbine")
    /\ \/ /\ Truthy(D_penstock)
          /\ Render(Element("success",
                            FormatFixed(FloatOfInt(D_penstock.val), 6, 3),
                            FormatFixed(FloatOfInt(v_mps), 5, 2),
                            "Recommended Diameter"))
       \/ /\ ~Truthy(D_penstock)
          /\ Render(Element("error", 0, 0, "Invalid velocity selected."))

\* the discharge passed instead of the head: suggest_turbine(Q_cusec)
ClassifyTurbine_byDischarge ==
    /\ Step("classify_turbine", "render_turbine")
    /\ turbine' = suggest_turbine(Q_cusec * 10)
    /\ UNCHANGED <<Q_cusec, v_fps, H_m, eta_turbine, eta_generator,
                   Q_m3s, v_mps, P_hydraulic_W, P_actual_W, D_penstock, page>>

\* line 90, the argument: suggest_turbine(H_m)
ClassifyTurbine ==
    /\ Step("classify_turbine", "render_turbine")
    /\ turbine' = suggest_turbine(H_m)
    /\ UNCHANGED <<Q_cusec, v_fps, H_m, eta_turbine, eta_generator,
                   Q_m3s, v_mps, P_hydraulic_W, P_actual_W, D_penstock, page>>

\* line 90, the call: st.info(...)
RenderTurbine ==
    /\ Step("render_turbine", "done")
    /\ Render(Element("info", 0, 0, turbine))

\* One widget is changed (or the page is refreshed with the same values) and
\* Streamlit runs the script again from the top.
Rerun ==
    /\ pc = "done"
    /\ \/ \E q \in QEntered :
             /\ number_input(q, Q_MIN)
             /\ widgets' = [widgets EXCEPT !.Q = q]
       \/ \E v \in VEntered :
             /\ number_input(v, V_MIN)
             /\ widgets' = [widgets EXCEPT !.v = v]
       \/ \E h \in HEntered :
             /\ number_input(h, H_MIN)
             /\ widgets' = [widgets EXCEPT !.H = h]
       \/ \E t \in EtaTEntered :
             /\ slider(t, ETA_MIN, ETA_MAX)
             /\ widgets' = [widgets EXCEPT !.t = t]
       \/ \E g \in EtaGEntered :
             /\ slider(g, ETA_MIN, ETA_MAX)
             /\ widgets' = [widgets EXCEPT !.g = g]
    /\ prev' = [set |-> TRUE, H |-> H_m, Q |-> Q_cusec,
                 label |-> page[Len(page)].text]
    /\ pc' = "inputs"
    /\ Q_cusec' = 0 /\ v_fps' = 0 /\ H_m' = 0
    /\ eta_turbine' = 0 /\ eta_generator' = 0
    /\ Q_m3s' = 0 /\ v_mps' = 0
    /\ P_hydraulic_W' = FloatZero /\ P_actual_W' = FloatZero
    /\ D_penstock' = Unbound
    /\ turbine' = ""
    /\ page' = <<>>
    /\ steps' = <<>>
    /\ UNCHANGED unitVars

Next ==
    \/ ReadInputs
    \/ ConvertUnits
    \/ ComputePowers
    \/ ComputeDiameter
    \/ RenderHydraulic
    \/ RenderElectrical
    \/ RenderMW
    \/ RenderPenstock
    \/ ClassifyTurbine
    \/ RenderTurbine
    \/ Rerun

Spec == Init /\ [][Next]_vars

\* The interpreter keeps executing the script until its last statement.
RunScript ==
    \/ ReadInputs
    \/ ConvertUnits
    \/ ComputePowers
    \/ ComputeDiameter
    \/ RenderHydraulic
    \/ RenderElectrical
    \/ RenderMW
    \/ RenderPenstock
    \/ ClassifyTurbine
    \/ RenderTurbine

FairSpec == Spec /\ WF_vars(RunScript)

(***************************************************************************)
(* Direct calls of the helper functions, as a unit test makes them: the    *)
(* arguments are not limited by the widgets' floors.                       *)
(***************************************************************************)
UnitInit ==
    /\ widgets = [Q |-> Q_DEFAULT, v |-> V_DEFAULT, H |-> H_DEFAULT,
                  t |-> ETA_T_DEFAULT, g |-> ETA_G_DEFAULT]
    /\ FreshRun
    /\ prev = NoPrev
    /\ u_Q \in UnitQValues
    /\ u_v \in UnitVValues
    /\ u_H \in UnitHValues
    /\ UnitIdle

Call(name) ==
    /\ name \notin u_called
    /\ u_called' = u_called \cup {name}
    /\ UNCHANGED <<u_Q, u_v, u_H>>
    /\ UNCHANGED <<widgets, pc, scriptVars, page, steps, prev>>

CallSuggestTurbine ==
    /\ Call("suggest_turbine")
    /\ u_label' = suggest_turbine(u_H)
    /\ UNCHANGED <<u_P, u_D>>

CallPenstockDiameter ==
    /\ Call("penstock_diameter")
    /\ u_D' = penstock_diameter(u_Q, u_v)
    /\ UNCHANGED <<u_P, u_label>>

CallHydraulicPower ==
    /\ Call("hydraulic_power")
    /\ u_P' = hydraulic_power(RHO, G, u_Q, u_H)
    /\ UNCHANGED <<u_D, u_label>>

UnitNext ==
    \/ CallSuggestTurbine
    \/ CallPenstockDiameter
    \/ CallHydraulicPower

UnitSpec == UnitInit /\ [][UnitNext]_vars

(***************************************************************************)
(* Properties.                                                             *)
(***************************************************************************)
StepsDone == {steps[i] : i \in 1..Len(steps)}

\* The page's elements of the given kinds.
Shown(kinds) == {page[i] : i \in {j \in 1..Len(page) : page[j].kind \in kinds}}

\* The script variables hold the default inputs (read from the widgets).
DefaultInputs ==
    /\ "inputs" \in StepsDone
    /\ Q_cusec = 100 /\ v_fps = 60 /\ H_m = 200
    /\ eta_turbine = 85 /\ eta_generator = 90

\* The run has read widget values within the input bounds.
InputsInBounds ==
    /\ "inputs" \in StepsDone
    /\ Q_cusec = widgets.Q /\ v_fps = widgets.v /\ H_m = widgets.H
    /\ widgets.Q >= 0 /\ widgets.v >= 1 /\ widgets.H >= 0
    /\ widgets.t \in 1..100 /\ widgets.g \in 1..100

\* y, which counts units of 10^-e, in units of 10^-(e + k)
ScaleUp(y, k) == Float(y.sign, NatMulPow10(y.mag, k))

\* C1: within the input bounds the page shows the penstock error message if
\* and only if the converted velocity is <= 0; whenever v_mps > 0 it shows a
\* numeric recommended diameter, also when the discharge is 0.
C1_ErrorIffBadVelocity ==
    ("render_penstock" \in StepsDone /\ InputsInBounds) =>
        /\ (Shown({"error"}) # {}) <=> (v_mps <= 0)
        /\ (v_mps > 0) => (Shown({"success"}) # {})

\* C2: suggest_turbine returns exactly one of the three labels for every head,
\* negative ones included: Pelton when H > 300, Francis when 50 <= H <= 300,
\* Kaplan/Propeller for every other H; 300 and 50 give Francis, the value just
\* above 300 Pelton, the value just below 50 Kaplan/Propeller.
C2_SuggestTurbineTotal ==
    ("suggest_turbine" \in u_called) =>
        /\ u_label \in {Pelton, Francis, Kaplan}
        /\ Cardinality({Pelton, Francis, Kaplan}) = 3
        /\ (u_label = Pelton) <=> (u_H > 3000)
        /\ (u_label = Francis) <=> (500 <= u_H /\ u_H <= 3000)
        /\ (u_label = Kaplan) <=> (u_H < 500)
        /\ (u_H \in {500, 3000}) => (u_label = Francis)
        /\ (u_H = 3001) => (u_label = Pelton)
        /\ (u_H = 499) => (u_label = Kaplan)

C2_Witness ==
    /\ "suggest_turbine" \in u_called
    /\ u_H < 0
    /\ u_label = Kaplan

\* C3: penstock_diameter returns None if and only if v_mps <= 0, whatever
\* Q_m3s is; for v_mps > 0 and Q_m3s >= 0 it returns a non-negative number
\* that is positive when Q_m3s > 0 and zero only when Q_m3s = 0.
C3_DiameterAbsentIffBadVelocity ==
    ("penstock_diameter" \in u_called) =>
        /\ (u_D.tag = "None") <=> (u_v <= 0)
        /\ (u_v > 0 /\ u_Q >= 0) =>
              /\ u_D.tag = "float"
              /\ u_D.val >= 0
              /\ (u_D.val = 0) <=> (u_Q = 0)

C3_Witness ==
    /\ "penstock_diameter" \in u_called
    /\ u_v > 0
    /\ u_Q = 0
    /\ u_D = [tag |-> "float", val |-> 0]

\* C4: within the input bounds the computed powers satisfy hydraulic >= 0,
\* electrical >= 0 and electrical <= hydraulic, where electrical is
\* hydraulic x eta_turbine x eta_generator.
C4_PowerBounds ==
    ("power" \in StepsDone /\ InputsInBounds) =>
        /\ P_hydraulic_W.sign >= 0
        /\ P_actual_W.sign >= 0
        /\ FloatLeq(P_actual_W, ScaleUp(P_hydraulic_W, 4))
        /\ P_actual_W.mag =
              NatMul(P_hydraulic_W.mag, NatOfInt(eta_turbine * eta_generator))

C4_Witness ==
    /\ "power" \in StepsDone
    /\ InputsInBounds
    /\ widgets.t < 100
    /\ P_actual_W.sign = 1
    /\ ~FloatLeq(ScaleUp(P_hydraulic_W, 4), P_actual_W)

\* C5: for Q_m3s >= 0 and H_m >= 0, hydraulic_power(1000, 9.81, Q_m3s, H_m)
\* is 1000 x 9.81 x Q_m3s x H_m, is >= 0, and is zero if and only if
\* Q_m3s = 0 or H_m = 0.
C5_HydraulicPower ==
    ("hydraulic_power" \in u_called /\ u_Q >= 0 /\ u_H >= 0) =>
        /\ u_P.mag = NatMul(NatMul(NatOfInt(1000 * 981), NatOfInt(u_Q)), NatOfInt(u_H))
        /\ u_P.sign >= 0
        /\ (u_P.sign = 0) <=> (u_Q = 0 \/ u_H = 0)

C5_Witness ==
    /\ "hydraulic_power" \in u_called
    /\ u_Q > 0
    /\ u_H > 0
    /\ u_P.sign = 1

\* C6, as amended: for the default inputs the script computes
\* Q_m3s = 2.83168 and v_mps = 1.8288, a hydraulic power of 555,575.6 W and
\* an electrical power of 425,015.3 W (each to one decimal place), which is
\* 0.425 MW at three decimals.
C6_DefaultPowers ==
    ("power" \in StepsDone /\ DefaultInputs) =>
        /\ Q_m3s = 28316800
        /\ v_mps = 182880
        /\ FormatFixed(P_hydraulic_W, 10, 1) = 5555756
        /\ FormatFixed(P_actual_W, 14, 1) = 4250153
        /\ FormatFixed(P_actual_W, 14 + 6, 3) = 425

\* C6, as claimed: 555,458.5 W and 424,925.8 W.
C6_DefaultPowersAsClaimed ==
    ("power" \in StepsDone /\ DefaultInputs) =>
        /\ Q_m3s = 28316800
        /\ v_mps = 182880
        /\ FormatFixed(P_hydraulic_W, 10, 1) = 5554585
        /\ FormatFixed(P_actual_W, 14, 1) = 4249258
        /\ FormatFixed(P_actual_W, 14 + 6, 3) = 425

C6_Witness ==
    /\ "power" \in StepsDone
    /\ DefaultInputs
    /\ P_actual_W.sign = 1

\* C7, as amended: for the default inputs the penstock diameter is shown as
\* 1.404 m (three decimals) and the recommendation is Kaplan/Propeller.
C7_DefaultDiameter ==
    (pc = "done" /\ DefaultInputs) =>
        /\ Shown({"success", "error"}) =
              {Element("success", 1404, 183, "Recommended Diameter")}
        /\ Shown({"info"}) = {Element("info", 0, 0, Kaplan)}

\* C7, as claimed: 1.403 m.
C7_DefaultDiameterAsClaimed ==
    (pc = "done" /\ DefaultInputs) =>
        /\ Shown({"success", "error"}) =
              {Element("success", 1403, 183, "Recommended Diameter")}
        /\ Shown({"info"}) = {Element("info", 0, 0, Kaplan)}

C7_Witness ==
    /\ pc = "done"
    /\ DefaultInputs
    /\ Shown({"success"}) # {}

\* C8: through the widgets (v_fps >= 0.1, v_mps = v_fps x 0.3048)
\* penstock_diameter is never called with a velocity <= 0, so the script's
\* diameter is never None.
C8_VelocityPositive ==
    /\ (pc = "diameter") => (v_mps > 0)
    /\ ("diameter" \in StepsDone) => (v_mps > 0 /\ D_penstock.tag # "None")

C8_Witness ==
    /\ "diameter" \in StepsDone
    /\ v_fps = 1
    /\ D_penstock.tag = "float"

\* C9: the recommendation shown depends only on H_m: a run with the same H_m
\* as the run before shows the same recommendation whatever the other inputs
\* are, and with H_m = 350 it is Pelton for every combination of the others.
C9_TurbineOnlyFromHead ==
    (pc = "done") =>
        /\ (prev.set /\ prev.H = H_m) =>
              (Shown({"info"}) = {Element("info", 0, 0, prev.label)})
        /\ (H_m = 3500) => (Shown({"info"}) = {Element("info", 0, 0, Pelton)})

C9_Witness ==
    /\ pc = "done"
    /\ prev.set
    /\ prev.H = H_m
    /\ prev.Q # Q_cusec
    /\ H_m = 3500

\* The order part of C10, as amended: every run executes the statements in the fixed order
\* inputs, unit conversion, power computation, diameter computation,
\* formatting of the two powers, the MW line and the penstock result, turbine
\* classification, formatting of the recommendation; it never stops before the
\* last one, and no statement is skipped or repeated.  Turbine classification
\* comes after the four other outputs are formatted.
C10_Order ==
    /\ Len(steps) <= Len(ScriptOrder)
    /\ steps = SubSeq(ScriptOrder, 1, Len(steps))
    /\ pc = (IF Len(steps) = Len(ScriptOrder) THEN "done"
             ELSE ScriptOrder[Len(steps) + 1])
    /\ ("classify_turbine" \in StepsDone) =>
          (Len(page) >= 4 /\ (Shown({"info"}) # {} <=> pc = "done"))

\* C10, as amended: the order above holds in every state of every run, and
\* every run that starts reaches its last statement.
C10_ScriptOrder == []C10_Order /\ ((pc = "inputs") ~> (pc = "done"))

\* C10, as claimed: turbine classification happens before any output
\* formatting step begins.
C10_ClassifyBeforeFormatting ==
    (page # <<>>) => ("classify_turbine" \in StepsDone)

C10_Witness ==
    /\ pc = "done"
    /\ steps = ScriptOrder
    /\ Len(page) = 5

====
